---- MODULE Spec2Model ----
(***************************************************************************)
(* Model of horus/util/profile.py: the settings registry (class setting,   *)
(* settingsDictionary, settingsList), the compact profile string codec     *)
(* (getProfileString / setProfileFromString), the ini store (saveProfile,  *)
(* loadProfile, savePreferences) and the named getters.                    *)
(*                                                                         *)
(* Text is a sequence of one-character tokens.  A setting name is a single *)
(* token standing for its (ASCII, separator-free) characters.  "E9" is the *)
(* one non-ASCII character of the model; its UTF-8 encoding is the two     *)
(* bytes "C3" "A9".  "BS" is the byte 0x08 and "FF" the byte 0x0C.         *)
(***************************************************************************)
EXTENDS Integers, Sequences, FiniteSets, TLC

\* ---- bounds of the model ----
\* largest instance index passed to a call or selected
MaxIndex == 1
\* calls per run of the setting and store specifications
MaxCalls == 2
\* calls per run of the codec specification
MaxCodecCalls == 4

\* index = None in the Python signatures (the model only passes indices >= 0)
None == -1

VARIABLES settingsList, settingsDictionary, selectedMachineIndex,
          written, encoded, snapshot, calls, out

vars == <<settingsList, settingsDictionary, selectedMachineIndex,
          written, encoded, snapshot, calls, out>>

\* ---- Python values handed to setValue ----
PyUnicode(s) == [t |-> "unicode", s |-> s, n |-> 0]
PyStr(b) == [t |-> "str", s |-> b, n |-> 0]
PyInt(n) == [t |-> "int", s |-> <<>>, n |-> n]

Digit(d) == <<"0", "1", "2", "3", "4", "5", "6", "7", "8", "9">>[d + 1]

RECURSIVE IntToStr(_)
IntToStr(n) == IF n < 10 THEN <<Digit(n)>> ELSE IntToStr(n \div 10) \o <<Digit(n % 10)>>

NonAsciiBytes == {"C3", "A9"}

\* unicode(value): text as it is, a number as its decimal digits, a byte
\* string through the ascii codec, which raises on a byte >= 0x80
Unicode(v) ==
  IF v.t = "unicode" THEN [raised |-> "", s |-> v.s]
  ELSE IF v.t = "int" THEN [raised |-> "", s |-> IntToStr(v.n)]
  ELSE IF \E k \in 1..Len(v.s) : v.s[k] \in NonAsciiBytes
       THEN [raised |-> "UnicodeDecodeError", s |-> <<>>]
       ELSE [raised |-> "", s |-> v.s]

\* u.encode('utf-8')
RECURSIVE EncodeUtf8(_)
EncodeUtf8(s) ==
  IF s = <<>> THEN <<>>
  ELSE (IF Head(s) = "E9" THEN <<"C3", "A9">> ELSE <<Head(s)>>) \o EncodeUtf8(Tail(s))

\* ---- class setting ----
NewSetting(name, default, category) ==
  [name |-> name, default |-> Unicode(default).s, category |-> category, values |-> <<>>]

isPreference(s) == s.category = "preference"

isMachineSetting(s) == s.category = "machine"

isProfile(s) == ~isPreference(s) /\ ~isMachineSetting(s)

getValueIndex(s) ==
  IF isMachineSetting(s) \/ isProfile(s) THEN selectedMachineIndex ELSE 0

getValue(s, index) ==
  LET i == IF index = None THEN getValueIndex(s) ELSE index
  IN  IF i >= Len(s.values) THEN s.default ELSE s.values[i + 1]

getDefault(s) == s.default

\* mutant: the loop stops one slot short (while index > len)
PadOneShort(s, i) ==
  [k \in 1..(IF i > Len(s.values) THEN i ELSE Len(s.values)) |->
     IF k <= Len(s.values) THEN s.values[k] ELSE s.default]

\* mutant: the padding is the empty string
PadWithEmpty(s, i) ==
  [k \in 1..(IF i + 1 > Len(s.values) THEN i + 1 ELSE Len(s.values)) |->
     IF k <= Len(s.values) THEN s.values[k] ELSE <<>>]

\* the while loop of setValue: append the default until index is in range
Pad(s, i) ==
  [k \in 1..(IF i + 1 > Len(s.values) THEN i + 1 ELSE Len(s.values)) |->
     IF k <= Len(s.values) THEN s.values[k] ELSE s.default]

\* setValue pads first and evaluates unicode(value) afterwards, so a value
\* unicode() rejects leaves the padding behind.  stored is the index written.
setValue(s, value, index) ==
  LET i == IF index = None THEN getValueIndex(s) ELSE index
      u == Unicode(value)
      padded == Pad(s, i)
  IN  IF u.raised # ""
      THEN [s |-> [s EXCEPT !.values = padded], raised |-> u.raised, stored |-> None]
      ELSE [s |-> [s EXCEPT !.values = [padded EXCEPT ![i + 1] = u.s]],
            raised |-> "", stored |-> i]

\* ---- the record of the last call ----
Section(kind, n) == [kind |-> kind, n |-> n]
File(sections) == [parsable |-> TRUE, sections |-> sections]
NoFile == [parsable |-> FALSE, sections |-> <<>>]
NoString == [kind |-> "none", payload |-> <<>>]

Call(op) ==
  [op |-> op, obj |-> 0, name |-> "", value |-> PyInt(0), index |-> None,
   allMachines |-> FALSE, options |-> NoString, ret |-> <<>>, raised |-> "",
   diag |-> FALSE, hang |-> FALSE, file |-> NoFile]

\* ---- module-level declarations (lines 182-187) ----
Declared ==
  << NewSetting("step_degrees", PyUnicode(<<"0", ".", "4", "5">>), "basic"),
     NewSetting("step_delay", PyInt(800), "basic"),
     NewSetting("machine_name", PyUnicode(<<>>), "machine"),
     NewSetting("language", PyUnicode(<<"E", "n", "g", "l", "i", "s", "h">>), "preference") >>

\* selectedMachineIndex is the module global _selectedMachineIndex: no function
\* of the module assigns it, the application selects the machine
Init ==
  /\ settingsList = Declared
  /\ settingsDictionary =
       [n \in {Declared[k].name : k \in 1..Len(Declared)} |->
          CHOOSE k \in 1..Len(Declared) : Declared[k].name = n]
  /\ selectedMachineIndex \in 0..MaxIndex
  /\ written = [k \in 1..Len(Declared) |-> {}]
  /\ encoded = NoString
  /\ snapshot = <<>>
  /\ calls = 0
  /\ out = Call("import")

\* ---- writes through setValue ----
\* the registry values, the indices written and the exception in flight
Registry == [list |-> settingsList, written |-> written, raised |-> ""]

\* obj.setValue(value, index) within a handler; nothing runs once it raised
Store(st, obj, value, index) ==
  IF st.raised # "" THEN st
  ELSE LET r == setValue(st.list[obj], value, index)
       IN  [list |-> [st.list EXCEPT ![obj] = r.s],
            written |-> [st.written EXCEPT ![obj] =
                           IF r.stored = None THEN @ ELSE @ \cup {r.stored}],
            raised |-> r.raised]

\* setting.__init__: the dictionary entry is overwritten, the list appended
Construct(name, default, category) ==
  /\ settingsList' = Append(settingsList, NewSetting(name, default, category))
  /\ settingsDictionary' =
       [n \in DOMAIN settingsDictionary \cup {name} |->
          IF n = name THEN Len(settingsList) + 1 ELSE settingsDictionary[n]]
  /\ written' = Append(written, {})
  /\ out' = [Call("construct") EXCEPT !.name = name, !.obj = Len(settingsList) + 1]
  /\ calls' = calls + 1
  /\ UNCHANGED <<selectedMachineIndex, encoded, snapshot>>

\* s.setValue(value, index) on the object at position obj of settingsList
SetValue(obj, value, index) ==
  /\ LET st == Store(Registry, obj, value, index)
     IN  /\ settingsList' = st.list
         /\ written' = st.written
         /\ out' = [Call("setValue") EXCEPT !.obj = obj, !.value = value,
                                            !.index = index, !.raised = st.raised]
  /\ calls' = calls + 1
  /\ UNCHANGED <<settingsDictionary, selectedMachineIndex, encoded, snapshot>>

\* mutant: only the preferences are skipped
ResetSkipsPreferences(s) == isPreference(s)

\* line 313: the settings resetProfile passes over
ResetSkips(s) == ~isProfile(s)

\* resetProfile(): every profile setting of the list gets its default
RECURSIVE ResetFrom(_, _)
ResetFrom(k, st) ==
  IF k > Len(st.list) THEN st
  ELSE ResetFrom(k + 1, IF ResetSkips(st.list[k]) THEN st
                        ELSE Store(st, k, PyUnicode(getDefault(st.list[k])), None))

resetProfile == ResetFrom(1, Registry)

ResetProfile ==
  /\ LET st == resetProfile
     IN  /\ settingsList' = st.list
         /\ written' = st.written
         /\ out' = [Call("resetProfile") EXCEPT !.raised = st.raised]
  /\ calls' = calls + 1
  /\ UNCHANGED <<settingsDictionary, selectedMachineIndex, encoded, snapshot>>

\* ---- text helpers ----
\* position of the first tok in seq, 0 when there is none
FirstPos(seq, tok) ==
  IF \E p \in 1..Len(seq) : seq[p] = tok
  THEN CHOOSE p \in 1..Len(seq) : seq[p] = tok /\ \A q \in 1..(p - 1) : seq[q] # tok
  ELSE 0

\* seq.split(sep, 1): one part when sep is absent, two otherwise
SplitFirst(seq, sep) ==
  LET p == FirstPos(seq, sep)
  IN  IF p = 0 THEN <<seq>>
      ELSE <<SubSeq(seq, 1, p - 1), SubSeq(seq, p + 1, Len(seq))>>

\* seq.split(sep)
RECURSIVE Split(_, _)
Split(seq, sep) ==
  LET p == FirstPos(seq, sep)
  IN  IF p = 0 THEN <<seq>>
      ELSE <<SubSeq(seq, 1, p - 1)>> \o Split(SubSeq(seq, p + 1, Len(seq)), sep)

\* sep.join(parts)
RECURSIVE Join(_, _)
Join(parts, sep) ==
  IF parts = <<>> THEN <<>>
  ELSE IF Len(parts) = 1 THEN parts[1]
  ELSE parts[1] \o <<sep>> \o Join(Tail(parts), sep)

\* ---- the compact profile string ----
\* base64.b64encode(zlib.compress(bytes, 9)): a lossless wrapping of the bytes
B64Zlib(bytes) == [kind |-> "zb64", payload |-> bytes]

\* zlib.decompress(base64.b64decode(options)): raises on what is no such wrapping
B64ZlibDecode(options) ==
  IF options.kind = "zb64" THEN [raised |-> "", bytes |-> options.payload]
  ELSE [raised |-> "TypeError", bytes |-> <<>>]

\* lines 346-348: name=value of every profile setting of the list, from k on
RECURSIVE ProfilePairs(_)
ProfilePairs(k) ==
  IF k > Len(settingsList) THEN <<>>
  ELSE (IF isProfile(settingsList[k])
        THEN << <<settingsList[k].name, "=">> \o EncodeUtf8(getValue(settingsList[k], None)) >>
        ELSE <<>>) \o ProfilePairs(k + 1)

getProfileString ==
  B64Zlib(Join(ProfilePairs(1), "BS") \o <<"FF">> \o Join(<<>>, "BS"))

\* mutant: a missing separator means an empty alt block
SplitBlocksLenient(payload) ==
  IF FirstPos(payload, "FF") = 0 THEN <<payload, <<>>>> ELSE SplitFirst(payload, "FF")

\* line 324: options.split('\f', 1), unpacked into exactly two names
SplitBlocks(payload) == SplitFirst(payload, "FF")

\* a key is a setting name when it is in settingsDictionary
Registered(key) == Len(key) = 1 /\ key[1] \in DOMAIN settingsDictionary

\* mutant: the primary block is not filtered by category
AppliesToAny(s, profileOnly) == TRUE

\* line 330 for the primary block, no test for the alt block (line 336)
Applies(s, profileOnly) == profileOnly => isProfile(s)

\* the loops of lines 326-331 (profileOnly) and 332-336
RECURSIVE ApplyOptions(_, _, _)
ApplyOptions(opts, st, profileOnly) ==
  IF opts = <<>> \/ st.raised # "" THEN st
  ELSE LET option == Head(opts)
           kv == SplitFirst(option, "=")
       IN  IF Len(option) = 0 THEN ApplyOptions(Tail(opts), st, profileOnly)
           ELSE IF Len(kv) # 2 THEN [st EXCEPT !.raised = "ValueError"]
           ELSE ApplyOptions(Tail(opts),
                  IF Registered(kv[1])
                     /\ Applies(st.list[settingsDictionary[kv[1][1]]], profileOnly)
                  THEN Store(st, settingsDictionary[kv[1][1]], PyStr(kv[2]), None)
                  ELSE st,
                  profileOnly)

setProfileFromString(options) ==
  LET d == B64ZlibDecode(options)
      blocks == SplitBlocks(d.bytes)
  IN  IF d.raised # "" THEN [Registry EXCEPT !.raised = d.raised]
      ELSE IF Len(blocks) # 2 THEN [Registry EXCEPT !.raised = "ValueError"]
      ELSE ApplyOptions(Split(blocks[2], "BS"),
                        ApplyOptions(Split(blocks[1], "BS"), Registry, TRUE),
                        FALSE)

\* the profile settings the dictionary names, with their values at the selected index
ProfileMapping ==
  [n \in {m \in DOMAIN settingsDictionary : isProfile(settingsList[settingsDictionary[m]])} |->
     getValue(settingsList[settingsDictionary[n]], None)]

\* getProfileString(); snapshot keeps the mapping the string was made from
GetProfileString ==
  /\ encoded' = getProfileString
  /\ snapshot' = ProfileMapping
  /\ out' = [Call("getProfileString") EXCEPT !.options = getProfileString]
  /\ calls' = calls + 1
  /\ UNCHANGED <<settingsList, settingsDictionary, selectedMachineIndex, written>>

SetProfileFromString(options) ==
  /\ LET st == setProfileFromString(options)
     IN  /\ settingsList' = st.list
         /\ written' = st.written
         /\ out' = [Call("setProfileFromString") EXCEPT !.options = options,
                                                        !.raised = st.raised]
  /\ calls' = calls + 1
  /\ UNCHANGED <<settingsDictionary, selectedMachineIndex, encoded, snapshot>>

\* ---- the ini store ----
\* unicode(bytes, 'utf-8', 'replace'): "FFFD" stands for U+FFFD
RECURSIVE DecodeUtf8Replace(_)
DecodeUtf8Replace(b) ==
  IF b = <<>> THEN <<>>
  ELSE IF Len(b) >= 2 /\ b[1] = "C3" /\ b[2] = "A9"
       THEN <<"E9">> \o DecodeUtf8Replace(SubSeq(b, 3, Len(b)))
       ELSE (IF Head(b) \in NonAsciiBytes THEN <<"FFFD">> ELSE <<Head(b)>>)
            \o DecodeUtf8Replace(Tail(b))

\* parser.set(section, s.getName(), s.getValue(index).encode('utf-8')) for the
\* settings at the positions objs, in list order: a later setting of the same
\* name replaces the option
Options(objs, index) ==
  [n \in {settingsList[k].name : k \in objs} |->
     LET last == CHOOSE k \in objs :
                   /\ settingsList[k].name = n
                   /\ \A j \in objs : settingsList[j].name = n => j <= k
     IN  EncodeUtf8(getValue(settingsList[last], index))]

has_option(file, section, name) ==
  section \in DOMAIN file.sections /\ name \in DOMAIN file.sections[section]

\* mutant: the getters look the name up and do not test the category
FoundAnyCategory(name, category) == name \in DOMAIN settingsDictionary

\* name in settingsDictionary and settingsDictionary[name].isX()
Found(name, category) ==
  /\ name \in DOMAIN settingsDictionary
  /\ LET s == settingsList[settingsDictionary[name]]
     IN  \/ category = "profile" /\ isProfile(s)
         \/ category = "preference" /\ isPreference(s)
         \/ category = "machine" /\ isMachineSetting(s)

\* the three getters differ in the category tested and in the index passed on
Getter(name, category, index) ==
  IF Found(name, category)
  THEN [ret |-> getValue(settingsList[settingsDictionary[name]], index), diag |-> FALSE]
  ELSE [ret |-> <<>>, diag |-> TRUE]

getProfileSetting(name) == Getter(name, "profile", None)

getPreference(name) == Getter(name, "preference", None)

getMachineSetting(name, index) == Getter(name, "machine", index)

\* the loop of lines 464-470: the number of machine sections written, or hang
\* when machine_name reads as non-empty at an index at or beyond the stored
\* length, where every later index reads as the same default
RECURSIVE MachineLoop(_)
MachineLoop(n) ==
  IF getMachineSetting("machine_name", n).ret = <<>> THEN [hang |-> FALSE, count |-> n]
  ELSE IF n >= Len(settingsList[settingsDictionary["machine_name"]].values)
       THEN [hang |-> TRUE, count |-> n]
       ELSE MachineLoop(n + 1)

Preferences == {k \in 1..Len(settingsList) : isPreference(settingsList[k])}

Machines == {k \in 1..Len(settingsList) : isMachineSetting(settingsList[k])}

savePreferences ==
  LET loop == MachineLoop(0)
  IN  IF loop.hang THEN [hang |-> TRUE, file |-> NoFile]
      ELSE [hang |-> FALSE,
            file |-> File([sec \in {Section("preference", None)}
                                   \cup {Section("machine", n) : n \in 0..(loop.count - 1)} |->
                             IF sec.kind = "preference" THEN Options(Preferences, None)
                             ELSE Options(Machines, sec.n)])]

\* lines 293 and 303: the settings saveProfile writes, in either mode
Saved == {k \in 1..Len(settingsList) :
            ~(isPreference(settingsList[k]) \/ isMachineSetting(settingsList[k]))}

\* count is what getMachineCount() returns
saveProfile(allMachines, count) ==
  IF allMachines
  THEN File([sec \in {Section("profile", n) : n \in 0..((IF Saved = {} THEN 0 ELSE count) - 1)} |->
               Options(Saved, sec.n)])
  ELSE File([sec \in {Section("profile", None)} |-> Options(Saved, None)])

\* lines 269 and 277: the settings loadProfile writes when the file has their option
LoadApplies(s) == ~isPreference(s)

\* the for loop over settingsList for one section, from position k on
RECURSIVE LoadSection(_, _, _, _, _)
LoadSection(file, section, index, k, st) ==
  IF k > Len(st.list) THEN st
  ELSE LoadSection(file, section, index, k + 1,
         IF LoadApplies(st.list[k]) /\ has_option(file, section, st.list[k].name)
         THEN Store(st, k,
                    PyUnicode(DecodeUtf8Replace(file.sections[section][st.list[k].name])),
                    index)
         ELSE st)

\* the while loop over the sections profile_0, profile_1, ...
RECURSIVE LoadSections(_, _, _)
LoadSections(file, n, st) ==
  IF Section("profile", n) \notin DOMAIN file.sections THEN st
  ELSE LoadSections(file, n + 1, LoadSection(file, Section("profile", n), n, 1, st))

loadProfile(file, allMachines) ==
  IF ~file.parsable THEN Registry
  ELSE IF allMachines THEN LoadSections(file, 0, Registry)
  ELSE LoadSection(file, Section("profile", None), None, 1, Registry)

SavePreferences ==
  /\ out' = [Call("savePreferences") EXCEPT !.hang = savePreferences.hang,
                                            !.file = savePreferences.file]
  /\ calls' = calls + 1
  /\ UNCHANGED <<settingsList, settingsDictionary, selectedMachineIndex,
                 written, encoded, snapshot>>

SaveProfile(allMachines, count) ==
  /\ out' = [Call("saveProfile") EXCEPT !.allMachines = allMachines,
                                        !.file = saveProfile(allMachines, count)]
  /\ calls' = calls + 1
  /\ UNCHANGED <<settingsList, settingsDictionary, selectedMachineIndex,
                 written, encoded, snapshot>>

LoadProfile(file, allMachines) ==
  /\ LET st == loadProfile(file, allMachines)
     IN  /\ settingsList' = st.list
         /\ written' = st.written
         /\ out' = [Call("loadProfile") EXCEPT !.allMachines = allMachines,
                                               !.file = file, !.raised = st.raised]
  /\ calls' = calls + 1
  /\ UNCHANGED <<settingsDictionary, selectedMachineIndex, encoded, snapshot>>

GetProfileSetting(name) ==
  /\ out' = [Call("getProfileSetting") EXCEPT !.name = name,
                                              !.ret = getProfileSetting(name).ret,
                                              !.diag = getProfileSetting(name).diag]
  /\ calls' = calls + 1
  /\ UNCHANGED <<settingsList, settingsDictionary, selectedMachineIndex,
                 written, encoded, snapshot>>

GetPreference(name) ==
  /\ out' = [Call("getPreference") EXCEPT !.name = name,
                                          !.ret = getPreference(name).ret,
                                          !.diag = getPreference(name).diag]
  /\ calls' = calls + 1
  /\ UNCHANGED <<settingsList, settingsDictionary, selectedMachineIndex,
                 written, encoded, snapshot>>

GetMachineSetting(name, index) ==
  /\ out' = [Call("getMachineSetting") EXCEPT !.name = name, !.index = index,
                                              !.ret = getMachineSetting(name, index).ret,
                                              !.diag = getMachineSetting(name, index).diag]
  /\ calls' = calls + 1
  /\ UNCHANGED <<settingsList, settingsDictionary, selectedMachineIndex,
                 written, encoded, snapshot>>

\* ---- inputs of the setting specification ----
ConstructNames == {"step_delay", "machine_name", "extra"}
Categories == {"basic", "machine", "preference"}
Defaults == {PyUnicode(<<"x">>), PyInt(7)}
Values == {PyUnicode(<<"x">>), PyInt(12)}
Indices == 0..MaxIndex

Next ==
  \/ \E name \in ConstructNames, default \in Defaults, category \in Categories :
       calls < MaxCalls /\ Construct(name, default, category)
  \/ \E obj \in 1..Len(settingsList), value \in Values, index \in Indices \cup {None} :
       calls < MaxCalls /\ SetValue(obj, value, index)
  \/ calls < MaxCalls /\ ResetProfile

Spec == Init /\ [][Next]_vars

\* ---- inputs of the codec specification ----
CodecValues == {PyUnicode(<<"y">>), PyUnicode(<<"E9">>)}

Pair(key, value) == <<key, "=">> \o value

\* strings the encoder never made: no separator, no compression, keys of every
\* category and an unknown key in either block, a value with "=", a pair without "="
Crafted ==
  { B64Zlib(Pair("step_delay", <<"x">>)),
    [kind |-> "garbage", payload |-> <<>>],
    B64Zlib(Join(<<Pair("language", <<"x">>), Pair("machine_name", <<"x">>),
                   Pair("nope", <<"x">>), Pair("step_delay", <<"x", "=", "x">>)>>, "BS")
            \o <<"FF">>),
    B64Zlib(Join(<<Pair("machine_name", <<"x">>), Pair("step_delay", <<"x">>),
                   Pair("step_delay", <<"w">>)>>, "BS")
            \o <<"FF">> \o
            Join(<<Pair("language", <<"z">>), Pair("nope", <<"z">>),
                   Pair("machine_name", <<"z">>), Pair("step_degrees", <<"z">>)>>, "BS")),
    B64Zlib(Pair("step_delay", <<"x">>)
            \o <<"FF">> \o
            Join(<<Pair("language", <<"z">>), Pair("machine_name", <<"C3", "A9">>),
                   Pair("step_degrees", <<"z">>)>>, "BS")),
    B64Zlib(Join(<<Pair("step_delay", <<"x">>), <<"j", "u", "n", "k">>,
                   Pair("step_degrees", <<"x">>)>>, "BS") \o <<"FF">>) }

NextCodec ==
  \/ \E obj \in 1..Len(settingsList), value \in CodecValues :
       calls < MaxCodecCalls /\ SetValue(obj, value, None)
  \/ calls < MaxCodecCalls /\ GetProfileString
  \/ \E options \in Crafted \cup ({encoded} \ {NoString}) :
       calls < MaxCodecCalls /\ SetProfileFromString(options)

SpecCodec == Init /\ [][NextCodec]_vars

\* ---- inputs of the store specification ----
\* the results of getMachineCount()
MachineCounts == 0..(MaxIndex + 1)

GetterNames == {"step_delay", "machine_name", "language", "nope"}

\* a single-mode file with an option of every category and an unknown one, a
\* multi-mode file with two sections, and a file the parser rejects
ProfileFiles ==
  { File([sec \in {Section("profile", None)} |->
            [n \in {"step_delay", "machine_name", "language", "nope"} |->
               IF n = "machine_name" THEN <<"C3", "A9">> ELSE <<"x">>]]),
    File([sec \in {Section("profile", 0), Section("profile", 1)} |->
            IF sec.n = 0 THEN [n \in {"step_delay", "language"} |-> <<"y">>]
            ELSE [n \in {"machine_name"} |-> <<"A9", "y">>]]),
    NoFile }

NextStore ==
  \/ \E name \in ConstructNames, category \in Categories :
       calls < MaxCalls /\ Construct(name, PyUnicode(<<"x">>), category)
  \/ \E obj \in 1..Len(settingsList), index \in Indices \cup {None} :
       calls < MaxCalls /\ SetValue(obj, PyUnicode(<<"x">>), index)
  \/ calls < MaxCalls /\ SavePreferences
  \/ \E allMachines \in BOOLEAN, count \in MachineCounts :
       calls < MaxCalls /\ (~allMachines => count = 0) /\ SaveProfile(allMachines, count)
  \/ \E file \in ProfileFiles, allMachines \in BOOLEAN :
       calls < MaxCalls /\ LoadProfile(file, allMachines)
  \/ \E name \in GetterNames : calls < MaxCalls /\ GetProfileSetting(name)
  \/ \E name \in GetterNames : calls < MaxCalls /\ GetPreference(name)
  \/ \E name \in GetterNames, index \in Indices \cup {None} :
       calls < MaxCalls /\ GetMachineSetting(name, index)

SpecStore == Init /\ [][NextStore]_vars

\* ---- claims on class setting and resetProfile (specification Spec) ----

\* C1: setValue(value, i) followed by getValue(i) returns the string form of
\* value, for an explicit index and for the index getValueIndex chooses
SetThenGetReturnsValue ==
  out.op = "setValue" =>
    LET s == settingsList[out.obj]
    IN  /\ getValue(s, out.index) = Unicode(out.value).s
        /\ out.index = None => s.values[getValueIndex(s) + 1] = Unicode(out.value).s
        /\ out.index # None => s.values[out.index + 1] = Unicode(out.value).s

\* a number written without an index, after an earlier call, where the selected
\* machine is not the first
SetThenGetWitness ==
  /\ out.op = "setValue" /\ out.index = None /\ out.value.t = "int"
  /\ selectedMachineIndex > 0
  /\ calls >= 2
  /\ settingsList[out.obj].values[selectedMachineIndex + 1] = <<"1", "2">>

\* C2: an index that was never written reads as the declared default
NeverWrittenReadsDefault ==
  \A obj \in 1..Len(settingsList), i \in 0..(MaxIndex + 1) :
    i \notin written[obj] =>
      getValue(settingsList[obj], i) = settingsList[obj].default

\* a write above the stored length padded index 0 of a setting whose default is not empty
PaddedWitness ==
  \E obj \in 1..Len(settingsList) :
    /\ Len(settingsList[obj].values) >= 2
    /\ 0 \notin written[obj]
    /\ written[obj] # {}
    /\ settingsList[obj].default # <<>>
    /\ settingsList[obj].values[1] = settingsList[obj].default

\* C6: no two settings of the list share a name, and the list has one entry
\* per key of the dictionary
UniqueNames ==
  /\ \A i, j \in 1..Len(settingsList) :
       settingsList[i].name = settingsList[j].name => i = j
  /\ Len(settingsList) = Cardinality(DOMAIN settingsDictionary)

\* C9: resetProfile leaves every profile setting reading its default and
\* every preference and machine setting as stored
ResetProfileFrame ==
  [][out'.op = "resetProfile" =>
       /\ Len(settingsList') = Len(settingsList)
       /\ \A k \in 1..Len(settingsList) :
            /\ isProfile(settingsList[k]) =>
                 getValue(settingsList'[k], None) = settingsList[k].default
            /\ ~isProfile(settingsList[k]) => settingsList'[k] = settingsList[k]]_vars

\* a reset that found a machine or preference setting holding a value
ResetProfileWitness ==
  /\ out.op = "resetProfile"
  /\ \E k \in 1..Len(settingsList) :
       /\ ~isProfile(settingsList[k])
       /\ getValue(settingsList[k], None) # settingsList[k].default

\* ---- claims on the profile string (specification SpecCodec) ----

\* C3: setProfileFromString(getProfileString()) gives every profile setting that
\* was not at its default when the string was made the value it had then
RoundTripReproduces ==
  (out.op = "setProfileFromString" /\ encoded # NoString /\ out.options = encoded) =>
    \A n \in DOMAIN snapshot :
      snapshot[n] # settingsList[settingsDictionary[n]].default =>
        n \in DOMAIN ProfileMapping /\ ProfileMapping[n] = snapshot[n]

\* C4: a string whose decompressed content has no block separator makes
\* setProfileFromString raise and leaves every stored value as it was
NoSeparatorFails ==
  [][(/\ out'.op = "setProfileFromString"
      /\ out'.options.kind = "zb64"
      /\ FirstPos(out'.options.payload, "FF") = 0) =>
       /\ out'.raised # ""
       /\ settingsList' = settingsList]_vars

\* the failed call came after a setting had been given a value
NoSeparatorWitness ==
  /\ out.op = "setProfileFromString"
  /\ out.options.kind = "zb64"
  /\ FirstPos(out.options.payload, "FF") = 0
  /\ \E p \in 1..Len(out.options.payload) : out.options.payload[p] \in DOMAIN settingsDictionary
  /\ \E k \in 1..Len(settingsList) : settingsList[k].values # <<>>

\* the key=value pairs of a block, the empty options left out
RECURSIVE PairsOf(_)
PairsOf(opts) ==
  IF opts = <<>> THEN <<>>
  ELSE (IF Head(opts) = <<>> THEN <<>>
        ELSE <<[key |-> SplitFirst(Head(opts), "=")[1],
                value |-> SubSeq(Head(opts), FirstPos(Head(opts), "=") + 1, Len(Head(opts)))]>>)
       \o PairsOf(Tail(opts))

PrimaryPairs(options) == PairsOf(Split(SplitFirst(options.payload, "FF")[1], "BS"))

AltPairs(options) == PairsOf(Split(SplitFirst(options.payload, "FF")[2], "BS"))

\* compressed, with a block separator, and every option that is not empty has a "="
WellFormed(options) ==
  /\ options.kind = "zb64"
  /\ FirstPos(options.payload, "FF") # 0
  /\ \A b \in 1..2 :
       LET opts == Split(SplitFirst(options.payload, "FF")[b], "BS")
       IN  \A o \in 1..Len(opts) : opts[o] # <<>> => FirstPos(opts[o], "=") # 0

\* pairs names the setting at position k of the list
Names(pairs, k) ==
  \E p \in 1..Len(pairs) :
    Registered(pairs[p].key) /\ settingsDictionary[pairs[p].key[1]] = k

\* no pair after p has the key of pair p
LastOfKey(pairs, p) == \A q \in (p + 1)..Len(pairs) : pairs[q].key # pairs[p].key

\* C5: decoding a well-formed string changes a setting only when the primary
\* block names it and it is a profile setting, or the alt block names it; a
\* call that returns has given every setting the alt block names, and every
\* profile setting only the primary block names, the last value paired with it
DecodeFiltersByBlock ==
  [][(out'.op = "setProfileFromString" /\ WellFormed(out'.options)) =>
       LET prim == PrimaryPairs(out'.options)
           alt == AltPairs(out'.options)
           Now(key) == getValue(settingsList'[settingsDictionary[key[1]]], None)
       IN  /\ Len(settingsList') = Len(settingsList)
           /\ \A k \in 1..Len(settingsList) :
                settingsList'[k] # settingsList[k] =>
                  \/ Names(prim, k) /\ isProfile(settingsList[k])
                  \/ Names(alt, k)
           /\ out'.raised = "" =>
                /\ \A p \in 1..Len(alt) :
                     (Registered(alt[p].key) /\ LastOfKey(alt, p)) =>
                       Now(alt[p].key) = alt[p].value
                /\ \A p \in 1..Len(prim) :
                     (/\ Registered(prim[p].key)
                      /\ isProfile(settingsList[settingsDictionary[prim[p].key[1]]])
                      /\ LastOfKey(prim, p)
                      /\ \A q \in 1..Len(alt) : alt[q].key # prim[p].key) =>
                       Now(prim[p].key) = prim[p].value]_vars

\* a call that returned, on a string that names a machine setting in the primary
\* block, a preference in the alt block and an unknown key
DecodeFiltersWitness ==
  /\ out.op = "setProfileFromString" /\ WellFormed(out.options) /\ out.raised = ""
  /\ \E p \in 1..Len(PrimaryPairs(out.options)) :
       LET key == PrimaryPairs(out.options)[p].key
       IN  Registered(key) /\ isMachineSetting(settingsList[settingsDictionary[key[1]]])
  /\ \E p \in 1..Len(AltPairs(out.options)) :
       LET key == AltPairs(out.options)[p].key
       IN  Registered(key) /\ isPreference(settingsList[settingsDictionary[key[1]]])
  /\ \E p \in 1..Len(AltPairs(out.options)) : ~Registered(AltPairs(out.options)[p].key)

\* ---- claims on the store and the getters (specification SpecStore) ----

\* the sections machine_n of a file
MachineSections(file) == {sec \in DOMAIN file.sections : sec.kind = "machine"}

\* C7: savePreferences returns, and with N the first index where machine_name
\* reads as empty it has written exactly machine_0 .. machine_(N-1), each with
\* the value at its index of every machine setting
SavePreferencesUpToFirstEmpty ==
  out.op = "savePreferences" =>
    /\ ~out.hang
    /\ LET Empty(n) == getMachineSetting("machine_name", n).ret = <<>>
           N == CHOOSE n \in 0..(MaxIndex + 2) : Empty(n) /\ \A m \in 0..(n - 1) : ~Empty(m)
       IN  /\ MachineSections(out.file) = {Section("machine", n) : n \in 0..(N - 1)}
           /\ \A n \in 0..(N - 1), k \in Machines :
                /\ has_option(out.file, Section("machine", n), settingsList[k].name)
                /\ out.file.sections[Section("machine", n)][settingsList[k].name]
                     = EncodeUtf8(getValue(settingsList[k], n))

\* C8: single-mode saveProfile writes into section profile the value at the
\* selected index of every setting that is not a preference, so every setting
\* single-mode loadProfile applies from that section is written
SingleSaveWritesNonPreferences ==
  (out.op = "saveProfile" /\ ~out.allMachines) =>
    \A k \in 1..Len(settingsList) :
      (~isPreference(settingsList[k]) /\ LoadApplies(settingsList[k])) =>
        /\ has_option(out.file, Section("profile", None), settingsList[k].name)
        /\ settingsDictionary[settingsList[k].name] = k =>
             out.file.sections[Section("profile", None)][settingsList[k].name]
               = EncodeUtf8(getValue(settingsList[k], None))

\* the category a getter asks for: a setting is a profile setting when it is
\* neither a preference nor a machine setting
GetterCategory(op) ==
  IF op = "getPreference" THEN {"preference"}
  ELSE IF op = "getMachineSetting" THEN {"machine"}
  ELSE {c \in Categories \cup {"profile"} : c \notin {"preference", "machine"}}

Getters == {"getProfileSetting", "getPreference", "getMachineSetting"}

\* C10: a getter changes no stored value and does not raise; for a name that is
\* not registered or is of another category it returns the empty string and
\* emits a diagnostic, otherwise it returns the setting's getValue result
GettersDegrade ==
  [][out'.op \in Getters =>
       /\ settingsList' = settingsList
       /\ out'.raised = ""
       /\ IF /\ out'.name \in DOMAIN settingsDictionary
             /\ settingsList[settingsDictionary[out'.name]].category \in GetterCategory(out'.op)
          THEN out'.ret = getValue(settingsList[settingsDictionary[out'.name]], out'.index)
          ELSE out'.ret = <<>> /\ out'.diag]_vars

\* a getter asked for a registered name of another category whose setting holds a value
GettersWitness ==
  /\ out.op \in Getters /\ out.diag /\ out.ret = <<>>
  /\ out.name \in DOMAIN settingsDictionary
  /\ getValue(settingsList[settingsDictionary[out.name]], out.index) # <<>>
  /\ settingsList[settingsDictionary[out.name]].values # <<>>

====
